---- MODULE Spec2Model ----
(***************************************************************************)
(* A model of go-firebase-api: the HTTP routes of cmd/api/main.go, the gin *)
(* middleware and JWT issuance of internal/auth, the handlers, the user    *)
(* service and the Firestore user repository.                              *)
(*                                                                         *)
(* Every HTTP request is one atomic action: a request makes at most one    *)
(* call to the document store, so concurrent requests interleave exactly   *)
(* as a sequence of such actions does.                                     *)
(*                                                                         *)
(* Conventions.  A Go string that is built by concatenation (an error      *)
(* message, a header) is a sequence of its pieces; the empty string is     *)
(* <<>>.  A Go pointer or value that may be nil is a sequence of length at *)
(* most one.  Time is counted in hours.                                    *)
(***************************************************************************)
EXTENDS Integers, Sequences, FiniteSets, TLC

VARIABLES
    users,      \* the Firestore collection "users": document id -> document
    secretKey,  \* os.Getenv("JWT_SECRET_KEY"); "" when unset
    clock,      \* time.Now(), in hours
    issued,     \* the calls of GenerateJWT that returned a token, each with
                \* its arguments, the time of the call and the token
    registered, \* the users returned by the successful requests to POST /users
    req,        \* the request being answered, as far as the server read it
    resp        \* the server's answer to it, and what ran while serving it

vars == <<users, secretKey, clock, issued, registered, req, resp>>

----------------------------------------------------------------------------
(* Bounds of the model.                                                    *)

MaxUsers == 2       \* documents the collection can hold
MaxTokens == 2      \* tokens issued in one behaviour
MaxTicks == 2       \* steps of the clock in one behaviour
HoursPerTick == 12  \* hours one step of the clock advances

----------------------------------------------------------------------------
(* net/http status codes and the role constants.                           *)

StatusOK == 200
StatusCreated == 201
StatusBadRequest == 400
StatusUnauthorized == 401
StatusForbidden == 403
StatusNotFound == 404
StatusInternalServerError == 500

Admin == "admin"
User == "user"

\* 24 * time.Hour, the lifetime GenerateJWT gives a token.
TokenLifetimeHours == 24

\* IsValid accepting every non-empty role.
IsValidAnyRole(r) == r # ""

\* role.Role.IsValid
IsValid(r) == r \in {Admin, User}

----------------------------------------------------------------------------
(* package apierror                                                        *)

NewAPIError(code, message) == [api |-> TRUE, Code |-> code, Message |-> message]

\* errors.New: an error that is not an *apierror.APIError
ErrorsNew(message) == [api |-> FALSE, Code |-> 0, Message |-> message]

NewNotFoundError(message) ==
    NewAPIError(StatusNotFound,
                IF message = <<>> THEN <<"The requested resource was not found">>
                                  ELSE message)

NewInternalServerError(message) ==
    NewAPIError(StatusInternalServerError,
                IF message = <<>> THEN <<"An unexpected internal error occurred">>
                                  ELSE message)

NewBadRequestError(message) ==
    NewAPIError(StatusBadRequest,
                IF message = <<>> THEN <<"Bad request">> ELSE message)

----------------------------------------------------------------------------
(* model.User and the documents of the collection.                         *)
(*                                                                         *)
(* A document holds the fields name, email and role; wellTyped says        *)
(* whether DocumentSnapshot.DataTo can decode it into a model.User (a      *)
(* document written by another program may hold a field of another type).  *)

NewUser(id, name, email, userRole) ==
    [ID |-> id, Name |-> name, Email |-> email, Role |-> userRole]

\* The document identifiers Firestore can generate, in ascending order.
IdOf(i) == ToString(i)

DocIDs == {IdOf(i) : i \in 1..MaxUsers}

\* DataTo leaving the role of the user unset.
DataToWithoutRole(doc) ==
    [ok |-> doc.wellTyped,
     user |-> [ID |-> "", Name |-> doc.name, Email |-> doc.email, Role |-> ""]]

\* DocumentSnapshot.DataTo(&user): the ID field is tagged firestore:"-".
DataTo(doc) ==
    [ok |-> doc.wellTyped,
     user |-> NewUser("", doc.name, doc.email, doc.role)]

\* The identifiers of the documents, in the order a query returns them
\* (ascending by document identifier).
RECURSIVE OrderedFrom(_, _)
OrderedFrom(store, i) ==
    IF i > MaxUsers THEN <<>>
    ELSE IF IdOf(i) \in DOMAIN store THEN <<IdOf(i)>> \o OrderedFrom(store, i + 1)
    ELSE OrderedFrom(store, i + 1)

Documents(store) == OrderedFrom(store, 1)

\* Collection("users").Where("email", "==", email).Limit(1).Documents(ctx)
WhereEmailLimit1(store, email) ==
    LET all == Documents(store)
        hits == SelectSeq(all, LAMBDA id : store[id].email = email)
    IN  IF hits = <<>> THEN <<>> ELSE <<Head(hits)>>

----------------------------------------------------------------------------
(* package repository.  Every operation returns the user (or list) it      *)
(* found, the error it returns, the collection afterwards and the store    *)
(* calls it made.  backend is "ok" when Firestore answers the call and     *)
(* "unavailable" when the call fails in transport.                         *)

RepoError(store, e, call) ==
    [user |-> <<>>, list |-> <<>>, err |-> <<e>>, users |-> store, calls |-> <<call>>]

RepoUser(store, u, call) ==
    [user |-> <<u>>, list |-> <<>>, err |-> <<>>, users |-> store, calls |-> <<call>>]

\* CreateUser writing the document under the identifier the user carries,
\* when it carries one.
CreateUserUnderGivenID(store, user, docID, backend) ==
    LET id == IF user.ID = "" THEN docID ELSE user.ID
    IN  IF backend # "ok"
        THEN RepoError(store,
                 NewInternalServerError(<<"Failed to create user in database">>),
                 "CreateUser")
        ELSE RepoUser((id :> [name |-> user.Name, email |-> user.Email,
                              role |-> user.Role, wellTyped |-> TRUE]) @@ store,
                      [user EXCEPT !.ID = id], "CreateUser")

\* userRepository.CreateUser: Add a document under the generated id docID.
CreateUser(store, user, docID, backend) ==
    IF backend # "ok"
    THEN RepoError(store, NewInternalServerError(<<"Failed to create user in database">>),
                   "CreateUser")
    ELSE RepoUser(store @@ (docID :> [name |-> user.Name, email |-> user.Email,
                                      role |-> user.Role, wellTyped |-> TRUE]),
                  [user EXCEPT !.ID = docID], "CreateUser")

\* GetUser reporting a missing document with the default message.
GetUserDefaultMessage(store, id, backend) ==
    IF backend # "ok"
    THEN RepoError(store, NewInternalServerError(<<"Failed to retrieve user from database">>),
                   "GetUser")
    ELSE IF id \notin DOMAIN store
    THEN RepoError(store, NewNotFoundError(<<>>), "GetUser")
    ELSE IF ~DataTo(store[id]).ok
    THEN RepoError(store, NewInternalServerError(<<"Failed to process user data">>),
                   "GetUser")
    ELSE RepoUser(store, [DataTo(store[id]).user EXCEPT !.ID = id], "GetUser")

\* userRepository.GetUser
GetUser(store, id, backend) ==
    IF backend # "ok"
    THEN RepoError(store, NewInternalServerError(<<"Failed to retrieve user from database">>),
                   "GetUser")
    ELSE IF id \notin DOMAIN store
    THEN RepoError(store, NewNotFoundError(<<"User with ID '", id, "' not found">>),
                   "GetUser")
    ELSE IF ~DataTo(store[id]).ok
    THEN RepoError(store, NewInternalServerError(<<"Failed to process user data">>),
                   "GetUser")
    ELSE RepoUser(store, [DataTo(store[id]).user EXCEPT !.ID = id], "GetUser")

\* GetUserByEmail querying without the limit and refusing several matches.
GetUserByEmailExpectingOne(store, email, backend) ==
    LET hits == SelectSeq(Documents(store), LAMBDA id : store[id].email = email)
    IN  IF backend # "ok" \/ Len(hits) > 1
        THEN RepoError(store,
                 NewInternalServerError(<<"Failed to retrieve user from database">>),
                 "GetUserByEmail")
        ELSE IF hits = <<>>
        THEN RepoError(store,
                 NewNotFoundError(<<"User with email '", email, "' not found">>),
                 "GetUserByEmail")
        ELSE IF ~DataTo(store[hits[1]]).ok
        THEN RepoError(store, NewInternalServerError(<<"Failed to process user data">>),
                 "GetUserByEmail")
        ELSE RepoUser(store, [DataTo(store[hits[1]]).user EXCEPT !.ID = hits[1]],
                 "GetUserByEmail")

\* GetUserByEmail leaving the identifier of the user unset.
GetUserByEmailWithoutID(store, email, backend) ==
    LET iter == WhereEmailLimit1(store, email)
    IN  IF backend # "ok"
        THEN RepoError(store,
                 NewInternalServerError(<<"Failed to retrieve user from database">>),
                 "GetUserByEmail")
        ELSE IF iter = <<>>
        THEN RepoError(store,
                 NewNotFoundError(<<"User with email '", email, "' not found">>),
                 "GetUserByEmail")
        ELSE IF ~DataTo(store[iter[1]]).ok
        THEN RepoError(store, NewInternalServerError(<<"Failed to process user data">>),
                 "GetUserByEmail")
        ELSE RepoUser(store, DataTo(store[iter[1]]).user, "GetUserByEmail")

\* userRepository.GetUserByEmail
GetUserByEmail(store, email, backend) ==
    LET iter == WhereEmailLimit1(store, email)
    IN  IF backend # "ok"
        THEN RepoError(store,
                 NewInternalServerError(<<"Failed to retrieve user from database">>),
                 "GetUserByEmail")
        ELSE IF iter = <<>>
        THEN RepoError(store,
                 NewNotFoundError(<<"User with email '", email, "' not found">>),
                 "GetUserByEmail")
        ELSE IF ~DataTo(store[iter[1]]).ok
        THEN RepoError(store, NewInternalServerError(<<"Failed to process user data">>),
                 "GetUserByEmail")
        ELSE RepoUser(store, [DataTo(store[iter[1]]).user EXCEPT !.ID = iter[1]],
                 "GetUserByEmail")

\* The loop of GetAllUsers going on to the next document when one fails to
\* convert.
RECURSIVE DrainFromSkipping(_, _, _, _, _)
DrainFromSkipping(store, docs, k, failAt, acc) ==
    IF failAt = k
    THEN RepoError(store, NewInternalServerError(<<"Failed to retrieve users">>),
                   "GetAllUsers")
    ELSE IF k > Len(docs)
    THEN [user |-> <<>>, list |-> acc, err |-> <<>>, users |-> store,
          calls |-> <<"GetAllUsers">>]
    ELSE IF ~DataTo(store[docs[k]]).ok
    THEN DrainFromSkipping(store, docs, k + 1, failAt, acc)
    ELSE DrainFromSkipping(store, docs, k + 1, failAt,
             Append(acc, [DataTo(store[docs[k]]).user EXCEPT !.ID = docs[k]]))

\* The loop of userRepository.GetAllUsers from its k-th call of iter.Next on;
\* failAt is the call of iter.Next that fails in transport (0: none does).
RECURSIVE DrainFrom(_, _, _, _, _)
DrainFrom(store, docs, k, failAt, acc) ==
    IF failAt = k
    THEN RepoError(store, NewInternalServerError(<<"Failed to retrieve users">>),
                   "GetAllUsers")
    ELSE IF k > Len(docs)
    THEN [user |-> <<>>, list |-> acc, err |-> <<>>, users |-> store,
          calls |-> <<"GetAllUsers">>]
    ELSE IF ~DataTo(store[docs[k]]).ok
    THEN RepoError(store, NewInternalServerError(<<"Failed to process user data">>),
                   "GetAllUsers")
    ELSE DrainFrom(store, docs, k + 1, failAt,
                   Append(acc, [DataTo(store[docs[k]]).user EXCEPT !.ID = docs[k]]))

\* userRepository.GetAllUsers
GetAllUsers(store, failAt) == DrainFrom(store, Documents(store), 1, failAt, <<>>)

----------------------------------------------------------------------------
(* Token strings and the Authorization header.                             *)
(*                                                                         *)
(* A string sent in the header is a sequence of items: a space, or a word  *)
(* without spaces.  A word is the sequence of its dot-separated segments;  *)
(* a JWT is a word of three segments: the header naming the algorithm, the *)
(* claims, and the signature, which is the MAC of the first two segments   *)
(* under a key.                                                            *)

Space == [sp |-> TRUE, segs |-> <<>>]

Word(segs) == [sp |-> FALSE, segs |-> segs]

Text(t) == Word(<<[seg |-> "text", txt |-> t]>>)

\* strings.Split(s, " "): the pieces of s between its spaces.
RECURSIVE SplitFrom(_, _, _)
SplitFrom(s, cur, acc) ==
    IF s = <<>> THEN Append(acc, cur)
    ELSE IF Head(s).sp THEN SplitFrom(Tail(s), <<>>, Append(acc, cur))
    ELSE SplitFrom(Tail(s), Append(cur, Head(s)), acc)

Split(s) == SplitFrom(s, <<>>, <<>>)

\* The dot-separated segments of a piece of the header.
Segments(piece) == IF Len(piece) = 1 THEN piece[1].segs ELSE <<>>

\* HMAC under key of the signing string (the first two segments).
HMAC(key, signingString) == [seg |-> "sig", key |-> key, over |-> signingString]

JWTHeader(alg) == [seg |-> "header", alg |-> alg]

\* auth.JWTClaims with its RegisteredClaims, as the JSON payload carries them.
JWTClaims(userID, email, userRole, iat, exp) ==
    [seg |-> "claims", user_id |-> userID, email |-> email, role |-> userRole,
     iat |-> iat, exp |-> exp, iss |-> "go-firebase-api"]

\* jwt.NewWithClaims(method, claims).SignedString(key)
SignedString(alg, claims, key) ==
    <<JWTHeader(alg), claims, HMAC(key, <<JWTHeader(alg), claims>>)>>

\* A token of the "none" method: its signature segment is empty.
UnsignedString(claims) ==
    <<JWTHeader("none"), claims, [seg |-> "sig", key |-> "", over |-> <<>>]>>

\* ParseWithClaims without the verification of the signature.
ParseWithClaimsUnverified(segs, key, now) ==
    IF Len(segs) # 3 THEN [valid |-> FALSE, why |-> "malformed"]
    ELSE IF segs[1].seg # "header" \/ segs[2].seg # "claims"
    THEN [valid |-> FALSE, why |-> "malformed"]
    ELSE IF segs[1].alg # "HS256" THEN [valid |-> FALSE, why |-> "method"]
    ELSE IF ~(now < segs[2].exp) THEN [valid |-> FALSE, why |-> "expired"]
    ELSE [valid |-> TRUE, why |-> ""]

\* ParseWithClaims without the validation of the exp claim.
ParseWithClaimsNoExpiry(segs, key, now) ==
    IF Len(segs) # 3 THEN [valid |-> FALSE, why |-> "malformed"]
    ELSE IF segs[1].seg # "header" \/ segs[2].seg # "claims"
    THEN [valid |-> FALSE, why |-> "malformed"]
    ELSE IF segs[1].alg # "HS256" THEN [valid |-> FALSE, why |-> "method"]
    ELSE IF segs[3] # HMAC(key, <<segs[1], segs[2]>>)
    THEN [valid |-> FALSE, why |-> "signature"]
    ELSE [valid |-> TRUE, why |-> ""]

\* jwt.ParseWithClaims(tokenString, claims, keyFunc) with keyFunc returning key,
\* followed by the test err != nil || !token.Valid.  The parser wants three
\* segments, a signing method that accepts a []byte key, a signature that
\* verifies under the key, and a time before the exp claim.
ParseWithClaims(segs, key, now) ==
    IF Len(segs) # 3 THEN [valid |-> FALSE, why |-> "malformed"]
    ELSE IF segs[1].seg # "header" \/ segs[2].seg # "claims"
    THEN [valid |-> FALSE, why |-> "malformed"]
    ELSE IF segs[1].alg # "HS256" THEN [valid |-> FALSE, why |-> "method"]
    ELSE IF segs[3] # HMAC(key, <<segs[1], segs[2]>>)
    THEN [valid |-> FALSE, why |-> "signature"]
    ELSE IF ~(now < segs[2].exp) THEN [valid |-> FALSE, why |-> "expired"]
    ELSE [valid |-> TRUE, why |-> ""]

----------------------------------------------------------------------------
(* package auth                                                            *)

\* GenerateJWT as it was before roles: the token carries no role claim.
GenerateJWTNoRole(userID, email, userRole, secret, now) ==
    IF secret = ""
    THEN [token |-> <<>>,
          err |-> <<ErrorsNew(<<"JWT_SECRET_KEY environment variable not set">>)>>,
          call |-> <<>>]
    ELSE LET token == SignedString("HS256",
                          JWTClaims(userID, email, "", now, now + TokenLifetimeHours),
                          secret)
         IN  [token |-> token, err |-> <<>>,
              call |-> <<[userID |-> userID, email |-> email, role |-> userRole,
                          at |-> now, token |-> token]>>]

\* GenerateJWT with a lifetime of one step of the clock.
GenerateJWTShortLived(userID, email, userRole, secret, now) ==
    IF secret = ""
    THEN [token |-> <<>>,
          err |-> <<ErrorsNew(<<"JWT_SECRET_KEY environment variable not set">>)>>,
          call |-> <<>>]
    ELSE LET token == SignedString("HS256",
                          JWTClaims(userID, email, userRole, now, now + HoursPerTick),
                          secret)
         IN  [token |-> token, err |-> <<>>,
              call |-> <<[userID |-> userID, email |-> email, role |-> userRole,
                          at |-> now, token |-> token]>>]

\* GenerateJWT signing with whatever the environment holds, set or not.
GenerateJWTNoSecretCheck(userID, email, userRole, secret, now) ==
    LET token == SignedString("HS256",
                     JWTClaims(userID, email, userRole, now, now + TokenLifetimeHours),
                     secret)
    IN  [token |-> token, err |-> <<>>,
         call |-> <<[userID |-> userID, email |-> email, role |-> userRole,
                     at |-> now, token |-> token]>>]

\* A call of GenerateJWT that returned token.
Issuance(userID, email, userRole, now, token) ==
    [userID |-> userID, email |-> email, role |-> userRole, at |-> now, token |-> token]

\* auth.GenerateJWT: the token string and the error it returns; call records
\* the call when it returns a token.
GenerateJWT(userID, email, userRole, secret, now) ==
    IF secret = ""
    THEN [token |-> <<>>,
          err |-> <<ErrorsNew(<<"JWT_SECRET_KEY environment variable not set">>)>>,
          call |-> <<>>]
    ELSE LET token == SignedString("HS256",
                          JWTClaims(userID, email, userRole, now,
                                    now + TokenLifetimeHours),
                          secret)
         IN  [token |-> token, err |-> <<>>,
              call |-> <<Issuance(userID, email, userRole, now, token)>>]

\* The gin.Context of a request: the keys set on it, whether it was aborted,
\* the response written so far and the handlers that ran, in order.
NoBody ==
    [kind |-> "none", user |-> <<>>, list |-> <<>>, token |-> <<>>,
     error |-> <<>>, errors |-> <<>>]

NewContext ==
    [keys |-> <<>>, aborted |-> FALSE, status |-> 0, body |-> NoBody, ran |-> <<>>]

ErrorBody(e) == [NoBody EXCEPT !.kind = "error", !.error = e.Message]

\* c.AbortWithStatusJSON(err.Code, err)
AbortWithStatusJSON(c, e) ==
    [c EXCEPT !.aborted = TRUE, !.status = e.Code, !.body = ErrorBody(e)]

\* c.JSON(code, obj)
JSON(c, code, body) == [c EXCEPT !.status = code, !.body = body]

\* c.Set(key, value)
Set(c, key, type, value) ==
    [c EXCEPT !.keys = (key :> [type |-> type, val |-> value]) @@ c.keys]

Ran(c, name) == [c EXCEPT !.ran = Append(c.ran, name)]

\* auth.AuthMiddleware: the context after the middleware ran on a request
\* with the Authorization header authHeader.
AuthMiddleware(c0, authHeader, secret, now) ==
    LET c == Ran(c0, "AuthMiddleware")
        parts == Split(authHeader)
    IN  IF authHeader = <<>>
        THEN AbortWithStatusJSON(c,
                 NewAPIError(StatusUnauthorized, <<"Authorization header is required">>))
        ELSE IF Len(parts) # 2 \/ parts[1] # <<Text("Bearer")>>
        THEN AbortWithStatusJSON(c,
                 NewAPIError(StatusUnauthorized,
                             <<"Authorization header format must be Bearer {token}">>))
        ELSE LET segs == Segments(parts[2])
             IN  IF ~ParseWithClaims(segs, secret, now).valid
                 THEN AbortWithStatusJSON(c,
                          NewAPIError(StatusUnauthorized, <<"Invalid or expired token">>))
                 ELSE Set(Set(c, "userID", "string", segs[2].user_id),
                          "userRole", "role.Role", segs[2].role)

\* RoleAuthMiddleware letting a request without a role through.
RoleAuthMiddlewareMissingRolePasses(requiredRole, c0) ==
    LET c == Ran(c0, "RoleAuthMiddleware")
    IN  IF "userRole" \notin DOMAIN c.keys
        THEN c
        ELSE IF c.keys["userRole"].val # requiredRole
        THEN AbortWithStatusJSON(c,
                 NewAPIError(StatusForbidden,
                             <<"You do not have permission to access this resource">>))
        ELSE c

\* RoleAuthMiddleware letting every request through that carries a role.
RoleAuthMiddlewareAnyRole(requiredRole, c0) ==
    LET c == Ran(c0, "RoleAuthMiddleware")
    IN  IF "userRole" \notin DOMAIN c.keys
        THEN AbortWithStatusJSON(c,
                 NewAPIError(StatusForbidden, <<"User role not found in token">>))
        ELSE c

\* auth.RoleAuthMiddleware(requiredRole)
RoleAuthMiddleware(requiredRole, c0) ==
    LET c == Ran(c0, "RoleAuthMiddleware")
    IN  IF "userRole" \notin DOMAIN c.keys
        THEN AbortWithStatusJSON(c,
                 NewAPIError(StatusForbidden, <<"User role not found in token">>))
        ELSE IF c.keys["userRole"].type # "role.Role"
        THEN AbortWithStatusJSON(c,
                 NewAPIError(StatusInternalServerError,
                             <<"User role in context has an invalid type">>))
        ELSE IF c.keys["userRole"].val # requiredRole
        THEN AbortWithStatusJSON(c,
                 NewAPIError(StatusForbidden,
                             <<"You do not have permission to access this resource">>))
        ELSE c

----------------------------------------------------------------------------
(* package service                                                         *)

\* RegisterUser defaulting the role instead of overwriting it.
RegisterUserDefaultsRole(store, user, docID, backend) ==
    CreateUser(store, IF user.Role = "" THEN [user EXCEPT !.Role = User] ELSE user,
               docID, backend)

\* userService.RegisterUser
RegisterUser(store, user, docID, backend) ==
    CreateUser(store, [user EXCEPT !.Role = User], docID, backend)

\* AdminRegisterUser creating the user before it looks at the role.
AdminRegisterUserChecksRoleLast(store, user, docID, backend) ==
    LET u == IF user.Role = "" THEN [user EXCEPT !.Role = User] ELSE user
        created == CreateUser(store, u, docID, backend)
    IN  IF created.err = <<>> /\ ~IsValid(u.Role)
        THEN [created EXCEPT !.user = <<>>,
                             !.err = <<NewBadRequestError(<<"Invalid role specified">>)>>]
        ELSE created

\* userService.AdminRegisterUser
AdminRegisterUser(store, user, docID, backend) ==
    LET u == IF user.Role = "" THEN [user EXCEPT !.Role = User] ELSE user
    IN  IF ~IsValid(u.Role)
        THEN [user |-> <<>>, list |-> <<>>,
              err |-> <<NewBadRequestError(<<"Invalid role specified">>)>>,
              users |-> store, calls |-> <<>>]
        ELSE CreateUser(store, u, docID, backend)

\* LoginUser issuing every token with the default role.
LoginUserDefaultRole(store, email, backend, secret, now) ==
    LET found == GetUserByEmail(store, email, backend)
        gen == GenerateJWT(found.user[1].ID, found.user[1].Email, User, secret, now)
    IN  IF found.err # <<>>
        THEN [token |-> <<>>, err |-> found.err, calls |-> found.calls, issue |-> <<>>]
        ELSE IF gen.err # <<>>
        THEN [token |-> <<>>,
              err |-> <<NewInternalServerError(<<"Failed to generate authentication token">>)>>,
              calls |-> found.calls, issue |-> <<>>]
        ELSE [token |-> gen.token, err |-> <<>>, calls |-> found.calls,
              issue |-> gen.call]

\* userService.LoginUser
LoginUser(store, email, backend, secret, now) ==
    LET found == GetUserByEmail(store, email, backend)
        gen == GenerateJWT(found.user[1].ID, found.user[1].Email, found.user[1].Role,
                           secret, now)
    IN  IF found.err # <<>>
        THEN [token |-> <<>>, err |-> found.err, calls |-> found.calls, issue |-> <<>>]
        ELSE IF gen.err # <<>>
        THEN [token |-> <<>>,
              err |-> <<NewInternalServerError(<<"Failed to generate authentication token">>)>>,
              calls |-> found.calls, issue |-> <<>>]
        ELSE [token |-> gen.token, err |-> <<>>, calls |-> found.calls,
              issue |-> gen.call]

\* userService.FindUserByID
FindUserByID(store, id, backend) == GetUser(store, id, backend)

\* userService.FindAllUsers
FindAllUsers(store, failAt) == GetAllUsers(store, failAt)

----------------------------------------------------------------------------
(* package handler                                                         *)

\* The length limits of the validate tag of model.User.Name.
NameMin == 2
NameMax == 100

\* The "email" rule of go-playground/validator on the addresses the model sends.
IsEmail(e) == e \in {"ann@x.com", "bob@x.com", "root@x.com", "old@x.com", "bad@x.com"}

\* A JSON field that may be absent from the body binds to the zero value.
FieldOrZero(f) == IF f = <<>> THEN "" ELSE f[1]

\* c.ShouldBindJSON(&user) on a well-formed body
BindUser(body) ==
    NewUser(FieldOrZero(body.id), FieldOrZero(body.name), FieldOrZero(body.email),
            FieldOrZero(body.role))

\* The rules of the name without its upper limit.
NameTagNoMax(name) ==
    IF name = "" THEN "required"
    ELSE IF Len(name) < NameMin THEN "min"
    ELSE ""

\* The first rule of validate:"required,min=2,max=100" that name fails, or "".
NameTag(name) ==
    IF name = "" THEN "required"
    ELSE IF Len(name) < NameMin THEN "min"
    ELSE IF Len(name) > NameMax THEN "max"
    ELSE ""

\* The first rule of validate:"required,email" that email fails, or "".
EmailTag(email) ==
    IF email = "" THEN "required"
    ELSE IF ~IsEmail(email) THEN "email"
    ELSE ""

\* h.validate.Struct(user) and formatValidationErrors: the failing fields, each
\* with the tag that failed (<<>> when the user is valid).
ValidateStruct(user) ==
    LET failing == {f \in {"Name", "Email"} :
                       IF f = "Name" THEN NameTag(user.Name) # ""
                                     ELSE EmailTag(user.Email) # ""}
    IN  [f \in failing |-> IF f = "Name" THEN NameTag(user.Name)
                                         ELSE EmailTag(user.Email)]

\* The branch every handler takes on an error of the service.
RespondError(c, e) ==
    IF e.api THEN JSON(c, e.Code, ErrorBody(e))
    ELSE JSON(c, StatusInternalServerError,
              [NoBody EXCEPT !.kind = "error",
                             !.error = <<"An unexpected error occurred">>])

\* What serving a request leaves: the context, the collection, the store
\* calls made and the token issuance made, if any.
Handled(c, store, calls, issue) ==
    [c |-> c, users |-> store, calls |-> calls, issue |-> issue]

\* The common body of UserHandler.CreateUser and UserHandler.AdminCreateUser:
\* bind, validate, call the service, answer.
CreateWith(c, body, store, result) ==
    IF ~body.wellFormed
    THEN Handled(RespondError(c, NewBadRequestError(<<"Invalid JSON format">>)),
                 store, <<>>, <<>>)
    ELSE IF DOMAIN ValidateStruct(BindUser(body)) # {}
    THEN Handled(JSON(c, StatusBadRequest,
                      [NoBody EXCEPT !.kind = "errors",
                                     !.errors = ValidateStruct(BindUser(body))]),
                 store, <<>>, <<>>)
    ELSE IF result.err # <<>>
    THEN Handled(RespondError(c, result.err[1]), result.users, result.calls, <<>>)
    ELSE Handled(JSON(c, StatusCreated,
                      [NoBody EXCEPT !.kind = "user", !.user = result.user]),
                 result.users, result.calls, <<>>)

\* UserHandler.CreateUser
UserHandlerCreateUser(c0, body, store, docID, backend) ==
    CreateWith(Ran(c0, "CreateUser"), body, store,
               RegisterUser(store, BindUser(body), docID, backend))

\* UserHandler.AdminCreateUser
AdminCreateUser(c0, body, store, docID, backend) ==
    CreateWith(Ran(c0, "AdminCreateUser"), body, store,
               AdminRegisterUser(store, BindUser(body), docID, backend))

\* UserHandler.GetUser
UserHandlerGetUser(c0, id, store, backend) ==
    LET c == Ran(c0, "GetUser")
        result == FindUserByID(store, id, backend)
    IN  IF result.err # <<>>
        THEN Handled(RespondError(c, result.err[1]), store, result.calls, <<>>)
        ELSE Handled(JSON(c, StatusOK,
                          [NoBody EXCEPT !.kind = "user", !.user = result.user]),
                     store, result.calls, <<>>)

\* UserHandler.GetAllUsers
UserHandlerGetAllUsers(c0, store, failAt) ==
    LET c == Ran(c0, "GetAllUsers")
        result == FindAllUsers(store, failAt)
    IN  IF result.err # <<>>
        THEN Handled(RespondError(c, result.err[1]), store, result.calls, <<>>)
        ELSE Handled(JSON(c, StatusOK,
                          [NoBody EXCEPT !.kind = "users", !.list = result.list]),
                     store, result.calls, <<>>)

\* AuthHandler.Login.  The tag of LoginRequest.Email is written
\* `json: "email" binding:"required,email"`: with the space after "json:" the
\* tag does not parse, so no binding rule applies and the field binds by its
\* name; every well-formed body passes ShouldBindJSON.
Login(c0, body, store, backend, secret, now) ==
    LET c == Ran(c0, "Login")
        result == LoginUser(store, FieldOrZero(body.email), backend, secret, now)
    IN  IF ~body.wellFormed
        THEN Handled(RespondError(c,
                 NewBadRequestError(
                     <<"Invalid request body: email is required and must be valid">>)),
                 store, <<>>, <<>>)
        ELSE IF result.err # <<>>
        THEN Handled(RespondError(c, result.err[1]), store, result.calls, <<>>)
        ELSE Handled(JSON(c, StatusOK,
                          [NoBody EXCEPT !.kind = "token", !.token = result.token]),
                     store, result.calls, result.issue)

----------------------------------------------------------------------------
(* The environment: the documents the collection may hold at start, the    *)
(* configuration, and what clients send.                                   *)

\* The value of JWT_SECRET_KEY when it is set, and the keys a client that
\* does not know it can sign with.
Secret == "a-very-strong-and-random-secret-key"

ClientKeys == {"", "guess"}

Doc(name, email, userRole, wellTyped) ==
    [name |-> name, email |-> email, role |-> userRole, wellTyped |-> wellTyped]

\* The collection at start: empty, or holding a document written before the
\* server started (an administrator, or a user whose role is spelled another
\* way).
InitialStores ==
    { <<>>,
      (IdOf(1) :> Doc("Root", "root@x.com", Admin, TRUE)),
      (IdOf(1) :> Doc("Old", "old@x.com", "Admin", TRUE)) }

Backends == {"ok", "unavailable"}

UserBody(id, name, email, userRole) ==
    [wellFormed |-> TRUE, id |-> id, name |-> name, email |-> email, role |-> userRole]

MalformedBody ==
    [wellFormed |-> FALSE, id |-> <<>>, name |-> <<>>, email |-> <<>>, role |-> <<>>]

\* The role field of a body: absent, empty, the two roles, another string.
BodyRoles == {<<>>, <<"">>, <<User>>, <<Admin>>, <<"root">>}

\* A name of n characters.
RECURSIVE NameOfLength(_)
NameOfLength(n) == IF n = 0 THEN "" ELSE "a" \o NameOfLength(n - 1)

\* The bodies sent to POST /users and POST /admin/users.
UserBodies ==
    {UserBody(<<>>, <<"Ann">>, <<"ann@x.com">>, r) : r \in BodyRoles}
    \cup {UserBody(<<>>, <<"Bo">>, <<"bob@x.com">>, r) : r \in {<<>>, <<Admin>>}}
    \cup {UserBody(<<IdOf(1)>>, <<"Ann">>, <<"ann@x.com">>, r) : r \in {<<>>, <<Admin>>}}
    \cup {UserBody(<<>>, n, <<"ann@x.com">>, <<>>) :
              n \in {<<>>, <<"">>, <<"A">>, <<NameOfLength(NameMax)>>,
                     <<NameOfLength(NameMax + 1)>>}}
    \cup {UserBody(<<>>, <<"A">>, <<"ann-at-x.com">>, <<"root">>)}
    \cup {UserBody(<<>>, <<"Ann">>, e, <<>>) : e \in {<<>>, <<"ann-at-x.com">>}}
    \cup {MalformedBody}

\* The bodies sent to POST /login.
LoginBodies(store) ==
    {UserBody(<<>>, <<>>, e, <<>>) :
        e \in {<<>>, <<"nobody@x.com">>} \cup {<<store[id].email>> : id \in DOMAIN store}}
    \cup {MalformedBody}

\* The claims a client puts in a token it makes itself.
ClientClaims == JWTClaims(IdOf(1), "ann@x.com", Admin, 0, (MaxTicks + 2) * HoursPerTick)

\* The token strings a client can send: the tokens it was issued, those with
\* the role or the expiry rewritten under the old signature, tokens signed
\* with a key of its own, an unsigned token, and a string that is no JWT.
ClientTokens(tokens) ==
    tokens
    \cup {<<t[1], [t[2] EXCEPT !.role = Admin], t[3]>> : t \in tokens}
    \cup {<<t[1], [t[2] EXCEPT !.exp = @ + TokenLifetimeHours], t[3]>> : t \in tokens}
    \cup {SignedString("HS256", ClientClaims, k) : k \in ClientKeys}
    \cup {UnsignedString(ClientClaims)}
    \cup {<<[seg |-> "text", txt |-> "garbage"]>>}

\* The Authorization headers sent to the protected routes.
Headers(tokens) ==
    {<<>>, <<Text("Bearer")>>, <<Text("Bearer"), Space>>,
     <<Text("Basic"), Space, Word(SignedString("HS256", ClientClaims, ""))>>,
     <<Text("Bearer"), Space, Space, Word(SignedString("HS256", ClientClaims, ""))>>}
    \cup {<<Text("Bearer"), Space, Word(t)>> : t \in ClientTokens(tokens)}

\* The identifiers Firestore may generate for a new document: any unused one.
FreeIDs(store) == DocIDs \ DOMAIN store

\* The ids a client asks for: those of the documents and one of no document.
RequestIDs == DocIDs \cup {IdOf(MaxUsers + 1)}

----------------------------------------------------------------------------
(* The routes of main, each with its chain of handlers.                    *)
(*                                                                         *)
(* The server is idle (req = NoRequest) or has just served one request;    *)
(* req and resp then hold that request and its answer until Respond hands  *)
(* the answer to the client and releases the context.                      *)

\* A request as far as the server read it: the route, the Authorization
\* header, the body and the :id parameter, with what the store did with the
\* request's call (backend: "" when no call was made; failAt: the call of
\* iter.Next that failed, 0 when none did).
NoRequest ==
    [route |-> "none", header |-> <<>>, body |-> <<>>, id |-> "",
     backend |-> "", failAt |-> 0]

Request(route, header, body, id, backend, failAt) ==
    [route |-> route, header |-> header, body |-> body, id |-> id,
     backend |-> backend, failAt |-> failAt]

\* The store's answer as the request saw it: none when it made no call.
Seen(h, backend) == IF h.calls = <<>> THEN "" ELSE backend

Tokens == {i.token : i \in issued}

Response(h) ==
    [status |-> h.c.status, body |-> h.c.body, keys |-> h.c.keys,
     aborted |-> h.c.aborted, ran |-> h.c.ran, calls |-> h.calls]

\* The answer of a chain that a middleware aborted.
Aborted(c) == Handled(c, users, <<>>, <<>>)

NoResponse == Response(Aborted(NewContext))

\* Whether a handler that binds body goes on to call the service.
Binds(body) == body.wellFormed /\ DOMAIN ValidateStruct(BindUser(body)) = {}

\* What the store does with a call: only a request that reaches the store
\* draws an outcome and, for an insert, a new identifier.
StoreOutcomes(reaches) == IF reaches THEN Backends ELSE {"ok"}

NewIDs(reaches, store) ==
    IF reaches /\ FreeIDs(store) # {} THEN FreeIDs(store) ELSE {""}

Init ==
    /\ users \in InitialStores
    /\ secretKey \in {"", Secret}
    /\ clock = 0
    /\ issued = {}
    /\ registered = {}
    /\ req = NoRequest
    /\ resp = NoResponse

\* POST /login: authHandler.Login
PostLogin ==
    /\ req = NoRequest
    /\ \E body \in LoginBodies(users) :
       \E backend \in StoreOutcomes(body.wellFormed) :
        LET h == Login(NewContext, body, users, backend, secretKey, clock)
        IN  /\ Cardinality(issued \cup {h.issue[k] : k \in DOMAIN h.issue}) <= MaxTokens
            /\ req' = Request("POST /login", <<>>, <<body>>, "", Seen(h, backend), 0)
            /\ resp' = Response(h)
            /\ issued' = issued \cup {h.issue[k] : k \in DOMAIN h.issue}
            /\ UNCHANGED <<users, secretKey, clock, registered>>

\* POST /users: userHandler.CreateUser
PostUsers ==
    /\ req = NoRequest
    /\ \E body \in UserBodies :
       \E backend \in StoreOutcomes(Binds(body)), docID \in NewIDs(Binds(body), users) :
        LET h == UserHandlerCreateUser(NewContext, body, users, docID, backend)
        IN  /\ docID = "" => h.users = users
            /\ req' = Request("POST /users", <<>>, <<body>>, "", Seen(h, backend), 0)
            /\ resp' = Response(h)
            /\ users' = h.users
            /\ registered' = registered
                   \cup {h.c.body.user[k] : k \in DOMAIN h.c.body.user}
            /\ UNCHANGED <<secretKey, clock, issued>>

\* GET /users/:id: AuthMiddleware, userHandler.GetUser
GetUsersID ==
    /\ req = NoRequest
    /\ \E header \in Headers(Tokens) :
        LET c == AuthMiddleware(NewContext, header, secretKey, clock)
        IN  \E id \in IF c.aborted THEN {""} ELSE RequestIDs,
               backend \in StoreOutcomes(~c.aborted) :
            LET h == IF c.aborted THEN Aborted(c)
                     ELSE UserHandlerGetUser(c, id, users, backend)
            IN  /\ req' = Request("GET /users/:id", header, <<>>, id,
                                  Seen(h, backend), 0)
                /\ resp' = Response(h)
                /\ UNCHANGED <<users, secretKey, clock, issued, registered>>

\* GET /admin/users: AuthMiddleware, RoleAuthMiddleware("admin"),
\* userHandler.GetAllUsers
GetAdminUsers ==
    /\ req = NoRequest
    /\ \E header \in Headers(Tokens) :
        LET c1 == AuthMiddleware(NewContext, header, secretKey, clock)
            c2 == IF c1.aborted THEN c1 ELSE RoleAuthMiddleware("admin", c1)
        IN  \E failAt \in IF c2.aborted THEN {0}
                          ELSE 0..(Cardinality(DOMAIN users) + 1) :
            LET h == IF c2.aborted THEN Aborted(c2)
                     ELSE UserHandlerGetAllUsers(c2, users, failAt)
            IN  /\ req' = Request("GET /admin/users", header, <<>>, "",
                                  Seen(h, IF failAt = 0 THEN "ok" ELSE "unavailable"),
                                  failAt)
                /\ resp' = Response(h)
                /\ UNCHANGED <<users, secretKey, clock, issued, registered>>

\* POST /admin/users: AuthMiddleware, RoleAuthMiddleware("admin"),
\* userHandler.AdminCreateUser
PostAdminUsers ==
    /\ req = NoRequest
    /\ \E header \in Headers(Tokens) :
        LET c1 == AuthMiddleware(NewContext, header, secretKey, clock)
            c2 == IF c1.aborted THEN c1 ELSE RoleAuthMiddleware("admin", c1)
        IN  \E body \in IF c2.aborted THEN {MalformedBody} ELSE UserBodies :
            \E backend \in StoreOutcomes(~c2.aborted /\ Binds(body)),
               docID \in NewIDs(~c2.aborted /\ Binds(body), users) :
            LET h == IF c2.aborted THEN Aborted(c2)
                     ELSE AdminCreateUser(c2, body, users, docID, backend)
            IN  /\ docID = "" => h.users = users
                /\ req' = Request("POST /admin/users", header,
                                  IF c2.aborted THEN <<>> ELSE <<body>>, "",
                                  Seen(h, backend), 0)
                /\ resp' = Response(h)
                /\ users' = h.users
                /\ UNCHANGED <<secretKey, clock, issued, registered>>

\* The answer is written to the client and the context is released.
Respond ==
    /\ req # NoRequest
    /\ req' = NoRequest
    /\ resp' = NoResponse
    /\ UNCHANGED <<users, secretKey, clock, issued, registered>>

\* Time passes.
Tick ==
    /\ req = NoRequest
    /\ clock + HoursPerTick <= MaxTicks * HoursPerTick
    /\ clock' = clock + HoursPerTick
    /\ UNCHANGED <<users, secretKey, issued, registered, req, resp>>

Next ==
    \/ PostLogin
    \/ PostUsers
    \/ GetUsersID
    \/ GetAdminUsers
    \/ PostAdminUsers
    \/ Respond
    \/ Tick

Spec == Init /\ [][Next]_vars

----------------------------------------------------------------------------
(* The listing of a collection that other programs wrote to as well: a     *)
(* document may hold a field of a type that DataTo cannot convert.         *)

\* The documents found in the collection at start.
ListingDocs ==
    { Doc("Root", "root@x.com", Admin, TRUE),
      Doc("Ann", "ann@x.com", User, TRUE),
      Doc("Odd", "odd@x.com", User, FALSE) }

\* The collection at start: any documents of these under any identifiers.
ListingStores == UNION {[ids -> ListingDocs] : ids \in SUBSET DocIDs}

InitListing ==
    /\ users \in ListingStores
    /\ secretKey \in {"", Secret}
    /\ clock = 0
    /\ issued = {}
    /\ registered = {}
    /\ req = NoRequest
    /\ resp = NoResponse

NextListing ==
    \/ PostLogin
    \/ GetAdminUsers
    \/ Respond

SpecListing == InitListing /\ [][NextListing]_vars

----------------------------------------------------------------------------
(* Registrations and logins in a collection in which users share an email: *)
(* the server runs on after registrations of earlier runs.                 *)

\* The documents earlier registrations left: one address, either role.
EmailDocs ==
    { Doc("Ann", "ann@x.com", Admin, TRUE),
      Doc("Ann", "ann@x.com", User, TRUE) }

EmailStores == UNION {[ids -> EmailDocs] : ids \in SUBSET DocIDs}

InitEmails ==
    /\ users \in EmailStores
    /\ secretKey \in {"", Secret}
    /\ clock = 0
    /\ issued = {}
    /\ registered = {}
    /\ req = NoRequest
    /\ resp = NoResponse

NextEmails ==
    \/ PostLogin
    \/ PostUsers
    \/ PostAdminUsers
    \/ Respond

SpecEmails == InitEmails /\ [][NextEmails]_vars

----------------------------------------------------------------------------
(* Vocabulary of the properties: what a request carried, said without the  *)
(* operators of the server.                                                *)

ProtectedRoutes == {"GET /users/:id", "GET /admin/users", "POST /admin/users"}

AdminRoutes == {"GET /admin/users", "POST /admin/users"}

AdminHandlers == {"GetAllUsers", "AdminCreateUser"}

\* The handlers that ran for the request, as a set.
RanSet == {resp.ran[k] : k \in DOMAIN resp.ran}

\* The role field of the body the handler read.
BodyRole == FieldOrZero(req.body[1].role)

\* The body read carries a name of 2 to 100 characters and one of the valid
\* addresses.
BodyValid ==
    /\ req.body # <<>>
    /\ req.body[1].wellFormed
    /\ req.body[1].name \in {<<"Ann">>, <<"Bo">>}
    /\ req.body[1].email \in {<<"ann@x.com">>, <<"bob@x.com">>}

\* The user the response returns is a document of the collection.
ReturnedIsStored ==
    /\ resp.body.user # <<>>
    /\ resp.body.user[1].ID \in DOMAIN users
    /\ users[resp.body.user[1].ID] =
           Doc(resp.body.user[1].Name, resp.body.user[1].Email,
               resp.body.user[1].Role, TRUE)

\* The number of spaces of the header.
Spaces(h) == Cardinality({k \in DOMAIN h : h[k].sp})

\* The header is "Bearer", one space, and something without a space.
BearerForm(h) ==
    /\ Len(h) >= 2
    /\ h[1] = Text("Bearer")
    /\ h[2].sp
    /\ Spaces(h) = 1

\* What follows "Bearer " in a header of that form, as dot-separated segments.
Credential(h) == IF Len(h) = 3 THEN h[3].segs ELSE <<>>

WellFormedJWT(t) ==
    /\ Len(t) = 3
    /\ t[1].seg = "header"
    /\ t[2].seg = "claims"
    /\ t[3].seg = "sig"

\* t carries the HS256 signature of its own first two segments under key.
SignedUnder(t, key) ==
    /\ t[1].alg = "HS256"
    /\ t[3].key = key
    /\ t[3].over = <<t[1], t[2]>>

\* The request carried a well-formed token, signed under the server's key and
\* not yet expired.
ValidToken(h) ==
    /\ BearerForm(h)
    /\ WellFormedJWT(Credential(h))
    /\ SignedUnder(Credential(h), secretKey)
    /\ clock < Credential(h)[2].exp

----------------------------------------------------------------------------
(* The properties.                                                         *)

\* C1: a request to POST /users that passes validation writes at most one
\* document, and whatever role its body carries (absent, empty, "user",
\* "admin", another string) the document written and the user returned have
\* role "user".
C1_PublicRegistrationForcesUser ==
    [][ (req'.route = "POST /users" /\ req'.body[1].wellFormed
         /\ DOMAIN ValidateStruct(BindUser(req'.body[1])) = {})
        => /\ \A id \in DOMAIN users' \ DOMAIN users : users'[id].role = User
           /\ resp'.status \in {StatusCreated, StatusInternalServerError}
           /\ resp'.status = StatusCreated
                => /\ resp'.body.user # <<>>
                   /\ resp'.body.user[1].Role = User
                   /\ resp'.body.user[1].ID \in DOMAIN users' \ DOMAIN users
                   /\ users'[resp'.body.user[1].ID].role = User
           /\ resp'.status # StatusCreated
                => resp'.body.user = <<>> /\ users' = users ]_vars

\* C1 witness: a registration whose body asked for role "admin" was answered
\* 201 with a user of role "user".
C1_Witness ==
    /\ req.route = "POST /users"
    /\ req.body[1].role = <<Admin>>
    /\ resp.status = StatusCreated
    /\ resp.body.user[1].Role = User
    /\ ReturnedIsStored

\* C2: POST /admin/users reaching AdminRegisterUser: an empty (or absent) role
\* creates the user with role "user", the roles "admin" and "user" create it
\* with that role, and any other role yields 400 without a call of the
\* store's CreateUser and without a change of the collection.
C2_AdminRegistrationRole ==
    [][ (req'.route = "POST /admin/users" /\ req'.body # <<>>
         /\ req'.body[1].wellFormed
         /\ DOMAIN ValidateStruct(BindUser(req'.body[1])) = {})
        => LET asked == FieldOrZero(req'.body[1].role)
               want == IF asked = "" THEN User ELSE asked
           IN  IF asked \in {"", Admin, User}
               THEN /\ resp'.calls = <<"CreateUser">>
                    /\ resp'.status \in {StatusCreated, StatusInternalServerError}
                    /\ \A id \in DOMAIN users' \ DOMAIN users : users'[id].role = want
                    /\ resp'.status = StatusCreated
                         => /\ resp'.body.user # <<>>
                            /\ resp'.body.user[1].Role = want
                            /\ resp'.body.user[1].ID \in DOMAIN users' \ DOMAIN users
               ELSE /\ resp'.status = StatusBadRequest
                    /\ resp'.body.kind = "error"
                    /\ resp'.calls = <<>>
                    /\ users' = users ]_vars

\* C2 witness: an administrator's request with role "root" was answered 400
\* and made no store call.
C2_Witness ==
    /\ req.route = "POST /admin/users"
    /\ req.body # <<>>
    /\ req.body[1].role = <<"root">>
    /\ BodyValid
    /\ resp.status = StatusBadRequest
    /\ resp.calls = <<>>

\* The credentials of the request are missing, malformed, or invalid:
\* (a) no Authorization header; (b) a header that is not "Bearer", one space
\* and one more part; (c) a token that is malformed, not signed under the
\* server's key, or expired.
NoHeader == req.header = <<>>

MalformedHeader == req.header # <<>> /\ ~BearerForm(req.header)

InvalidOrExpiredToken ==
    /\ BearerForm(req.header)
    /\ \/ ~WellFormedJWT(Credential(req.header))
       \/ ~SignedUnder(Credential(req.header), secretKey)
       \/ clock >= Credential(req.header)[2].exp

\* C3: on every protected route each of the three cases is answered 401, the
\* request is aborted, nothing is set on the context, and no handler after
\* AuthMiddleware runs (so no store call is made).
C3_BadCredentialsUnauthorized ==
    (req.route \in ProtectedRoutes
     /\ (NoHeader \/ MalformedHeader \/ InvalidOrExpiredToken))
    => /\ resp.status = StatusUnauthorized
       /\ resp.aborted
       /\ DOMAIN resp.keys = {}
       /\ resp.ran = <<"AuthMiddleware">>
       /\ resp.calls = <<>>
       /\ resp.body.kind = "error"

\* C3 witness: an issued token, sent to an admin route once expired, was
\* answered 401.
C3_Witness ==
    /\ req.route = "POST /admin/users"
    /\ BearerForm(req.header)
    /\ Credential(req.header) \in Tokens
    /\ clock >= Credential(req.header)[2].exp
    /\ resp.status = StatusUnauthorized

\* C4: on an admin route a valid, unexpired token whose role is not exactly
\* "admin" is answered 403 and no admin handler runs; with a valid token whose
\* role is "admin" the route's handler runs.
C4_AdminRouteNeedsAdminRole ==
    (req.route \in AdminRoutes /\ ValidToken(req.header))
    => IF Credential(req.header)[2].role = Admin
       THEN /\ ~resp.aborted
            /\ resp.ran = <<"AuthMiddleware", "RoleAuthMiddleware",
                            IF req.route = "GET /admin/users" THEN "GetAllUsers"
                                                               ELSE "AdminCreateUser">>
       ELSE /\ resp.status = StatusForbidden
            /\ resp.aborted
            /\ RanSet \cap AdminHandlers = {}
            /\ resp.calls = <<>>

\* C4 witness: a token of a user whose role is spelled "Admin" was answered
\* 403 on GET /admin/users.
C4_Witness ==
    /\ req.route = "GET /admin/users"
    /\ ValidToken(req.header)
    /\ Credential(req.header)[2].role = "Admin"
    /\ resp.status = StatusForbidden

\* C4 witness, second case: an administrator's token ran GetAllUsers.
C4_WitnessAdmin ==
    /\ req.route = "GET /admin/users"
    /\ ValidToken(req.header)
    /\ Credential(req.header)[2].role = Admin
    /\ resp.status = StatusOK
    /\ "GetAllUsers" \in RanSet

\* The header that carries token t the way the README shows.
Bearer(t) == <<Text("Bearer"), Space, Word(t)>>

\* C5: a token GenerateJWT issued for (userID, email, role), sent to a
\* protected route before its expiry while the secret is the one it was
\* signed with, passes AuthMiddleware, and the identifier and the role set on
\* the request's context are those passed to GenerateJWT.
C5_IssueThenVerifyRoundTrip ==
    \A i \in issued :
        (req.route \in ProtectedRoutes /\ req.header = Bearer(i.token)
         /\ clock < i.at + TokenLifetimeHours)
        => /\ resp.status # StatusUnauthorized
           /\ resp.ran[1] = "AuthMiddleware"
           /\ Len(resp.ran) >= 2
           /\ DOMAIN resp.keys = {"userID", "userRole"}
           /\ resp.keys["userID"].val = i.userID
           /\ resp.keys["userRole"].val = i.role

\* C5 witness: an administrator's token, sent some time after it was issued,
\* put the administrator's identifier and role on the context.
C5_Witness ==
    \E i \in issued :
        /\ req.route = "GET /users/:id"
        /\ req.header = Bearer(i.token)
        /\ i.at < clock
        /\ i.role = Admin
        /\ resp.keys["userRole"].val = Admin
        /\ resp.keys["userID"].val = i.userID
        /\ resp.status = StatusOK

\* C6: every issued token expires 24 hours after the time of its issue; at
\* every later point of the run, whatever requests were served in between,
\* AuthMiddleware accepts the token while the time is before the expiry and
\* answers 401 once the expiry is reached.
C6_ExpiryIsTheOnlyEnd ==
    \A i \in issued :
        LET c == AuthMiddleware(NewContext, Bearer(i.token), secretKey, clock)
        IN  /\ i.token[2].exp = i.at + TokenLifetimeHours
            /\ clock < i.token[2].exp => ~c.aborted /\ c.status # StatusUnauthorized
            /\ clock >= i.token[2].exp => c.aborted /\ c.status = StatusUnauthorized
            /\ (req.route \in ProtectedRoutes /\ req.header = Bearer(i.token))
                 => (resp.status = StatusUnauthorized <=> clock >= i.token[2].exp)

\* C6 witness: a token issued earlier was accepted after a later login and a
\* later registration.
C6_Witness ==
    \E i, j \in issued :
        /\ i.at < j.at
        /\ Cardinality(DOMAIN users) >= 2
        /\ req.route = "GET /users/:id"
        /\ req.header = Bearer(i.token)
        /\ clock < i.token[2].exp
        /\ resp.status = StatusOK

\* C6 witness, second case: the same kind of token was answered 401 at its
\* expiry.
C6_WitnessExpired ==
    \E i \in issued :
        /\ req.route = "GET /users/:id"
        /\ req.header = Bearer(i.token)
        /\ clock >= i.token[2].exp
        /\ resp.status = StatusUnauthorized

\* The error message of the response names the id asked for.
MessageNames(id) == \E k \in DOMAIN resp.body.error : resp.body.error[k] = id

\* C7: GET /users/:id with a valid token, for an id of no stored document
\* (the store answering the lookup), is answered 404 with an error message
\* that contains the id.
C7_MissingUserNotFound ==
    (req.route = "GET /users/:id" /\ ValidToken(req.header)
     /\ req.id \notin DOMAIN users /\ req.backend = "ok")
    => /\ resp.status = StatusNotFound
       /\ resp.body.kind = "error"
       /\ MessageNames(req.id)
       /\ resp.calls = <<"GetUser">>

\* C7 witness: the id of no document was asked for and answered 404.
C7_Witness ==
    /\ req.route = "GET /users/:id"
    /\ ValidToken(req.header)
    /\ Credential(req.header) \in Tokens
    /\ req.id = IdOf(MaxUsers + 1)
    /\ resp.status = StatusNotFound
    /\ MessageNames(req.id)

\* The email a login asked for, and the documents that hold it.
LoginEmail(r) == FieldOrZero(r.body[1].email)

Holders(email) == {id \in DOMAIN users : users[id].email = email}

\* C8: with the secret configured, for every user u a public registration
\* returned (201): u has role "user"; a login with u's email that the store
\* answers, no other document holding that email, returns 200 with a token
\* for u; GET /users/<u's id> with an unexpired token of u returns 200 with
\* u's name, email and role as registered; and GET /admin/users with that
\* token returns 403 -- whatever other registrations happened in between.
C8_RegisterLoginGetForbidden ==
    secretKey # "" =>
    \A u \in registered :
        /\ u.Role = User
        /\ (req.route = "POST /login" /\ req.body[1].wellFormed
            /\ LoginEmail(req) = u.Email /\ req.backend = "ok"
            /\ Holders(u.Email) = {u.ID})
           => /\ resp.status = StatusOK
              /\ resp.body.kind = "token"
              /\ resp.body.token \in Tokens
              /\ resp.body.token[2].user_id = u.ID
        /\ \A i \in issued :
              (i.userID = u.ID /\ req.header = Bearer(i.token)
               /\ clock < i.token[2].exp)
              => /\ (req.route = "GET /users/:id" /\ req.id = u.ID
                     /\ req.backend = "ok")
                    => /\ resp.status = StatusOK
                       /\ resp.body.kind = "user"
                       /\ resp.body.user = <<u>>
                 /\ req.route = "GET /admin/users"
                    => /\ resp.status = StatusForbidden
                       /\ resp.body.kind = "error"

\* C8 witness: two users registered; the token of one of them fetched that
\* user with the registered fields.
C8_Witness ==
    \E u \in registered, i \in issued :
        /\ Cardinality(registered) = 2
        /\ i.userID = u.ID
        /\ req.route = "GET /users/:id"
        /\ req.id = u.ID
        /\ req.header = Bearer(i.token)
        /\ resp.status = StatusOK
        /\ resp.body.user = <<u>>
        /\ u.Role = User

\* C8 witness, last step: the same kind of token was answered 403 on
\* GET /admin/users.
C8_WitnessForbidden ==
    \E u \in registered, i \in issued :
        /\ Cardinality(registered) = 2
        /\ i.userID = u.ID
        /\ req.route = "GET /admin/users"
        /\ req.header = Bearer(i.token)
        /\ resp.status = StatusForbidden

C9_WitnessNotFound ==
    /\ req.route = "POST /login"
    /\ req.backend = "ok"
    /\ users # <<>>
    /\ Holders(LoginEmail(req)) = {}
    /\ resp.status = StatusNotFound

\* C10: with the secret unset GenerateJWT returns an error and no token, no
\* token is ever issued, and the login of an existing user is answered 500
\* without a token; with the secret set, GenerateJWT succeeds and that login
\* is answered 200 with a token.
C10_IssuanceNeedsSecret ==
    /\ secretKey = "" => issued = {}
    /\ \A id \in DOMAIN users :
          LET g == GenerateJWT(id, users[id].email, users[id].role, secretKey, clock)
          IN  IF secretKey = ""
              THEN g.err # <<>> /\ g.token = <<>> /\ g.call = <<>>
              ELSE g.err = <<>> /\ g.token # <<>>
    /\ (req.route = "POST /login" /\ req.body[1].wellFormed /\ req.backend = "ok"
        /\ Holders(LoginEmail(req)) # {})
       => IF secretKey = ""
          THEN /\ resp.status = StatusInternalServerError
               /\ resp.body.kind = "error"
               /\ resp.body.token = <<>>
          ELSE /\ resp.status = StatusOK
               /\ resp.body.token \in Tokens

\* C10 witness: with the secret unset the login of a stored user was answered
\* 500.
C10_Witness ==
    /\ secretKey = ""
    /\ req.route = "POST /login"
    /\ req.backend = "ok"
    /\ Holders(LoginEmail(req)) # {}
    /\ resp.status = StatusInternalServerError
    /\ resp.body.token = <<>>

----------------------------------------------------------------------------
(* Input validation.                                                       *)

CreateRoutes == {"POST /users", "POST /admin/users"}

\* The text of a field of the body sent; an absent field counts as empty.
TextOf(f) == IF f = <<>> THEN "" ELSE f[1]

\* The addresses sent that are syntactically valid; "ann-at-x.com" is not.
ValidAddresses == {"ann@x.com", "bob@x.com"}

\* A handler of a create route read a well-formed body.
ReadBody ==
    /\ req.route \in CreateRoutes
    /\ req.body # <<>>
    /\ req.body[1].wellFormed

\* The request went past validation to the service: the service's insert was
\* made, or the service itself refused the role.
PassedValidation ==
    /\ resp.body.kind # "errors"
    /\ resp.body.errors = <<>>
    /\ \/ resp.calls = <<"CreateUser">>
             /\ resp.status \in {StatusCreated, StatusInternalServerError}
       \/ /\ req.route = "POST /admin/users"
          /\ resp.status = StatusBadRequest
          /\ resp.body.error = <<"Invalid role specified">>
          /\ resp.calls = <<>>

\* The request was refused by validation with a per-field "errors" body that
\* has an entry for exactly the fields in bad, and nothing was called.
RejectedByValidation(bad) ==
    /\ resp.status = StatusBadRequest
    /\ resp.body.kind = "errors"
    /\ DOMAIN resp.body.errors = bad
    /\ bad # {}
    /\ resp.body.error = <<>>
    /\ resp.body.user = <<>>
    /\ resp.calls = <<>>

\* The fields of the body read that break the rules, the shortest name
\* allowed being shortest characters long.
BadFields(shortest) ==
    (IF Len(TextOf(req.body[1].name)) \in shortest..100 THEN {} ELSE {"Name"})
    \cup (IF TextOf(req.body[1].email) \in ValidAddresses THEN {} ELSE {"Email"})

\* C11 as stated: on POST /users and POST /admin/users a name of 1 to 100
\* characters with a valid email passes validation; an empty name, a name of
\* more than 100 characters, or a missing or invalid email is answered 400
\* with a per-field "errors" body and no call of the service or the store.
C11_NameOneToHundred ==
    ReadBody =>
        IF BadFields(1) = {} THEN PassedValidation
        ELSE RejectedByValidation(BadFields(1))

\* C11, amended: the same with names of 2 to 100 characters passing, and a
\* name of one character refused like an empty one.
C11_NameTwoToHundred ==
    ReadBody =>
        IF BadFields(2) = {} THEN PassedValidation
        ELSE RejectedByValidation(BadFields(2))

\* C11 witness: a name of exactly 100 characters was accepted by an
\* administrator's request and the user created.
C11_Witness ==
    /\ req.route = "POST /admin/users"
    /\ ReadBody
    /\ Len(TextOf(req.body[1].name)) = 100
    /\ resp.status = StatusCreated
    /\ ReturnedIsStored

\* C11 witness, second case: a name of 101 characters was refused on
\* POST /users with an entry for the name only.
C11_WitnessTooLong ==
    /\ req.route = "POST /users"
    /\ ReadBody
    /\ Len(TextOf(req.body[1].name)) = 101
    /\ RejectedByValidation({"Name"})

\* C11 witness, third case: a name of one character was refused.
C11_WitnessOneCharacter ==
    /\ req.route = "POST /users"
    /\ ReadBody
    /\ Len(TextOf(req.body[1].name)) = 1
    /\ TextOf(req.body[1].email) \in ValidAddresses
    /\ resp.body.errors = [f \in {"Name"} |-> "min"]

----------------------------------------------------------------------------
(* The order of the two stages.                                            *)

\* The context as a stage finds it when the keys in keys were set on it.
ContextWith(keys) == [NewContext EXCEPT !.keys = keys]

\* The role check refused the context with 403.
Forbidden(c) == c.aborted /\ c.status = StatusForbidden /\ c.body.kind = "error"

\* The role check let the context through without writing an answer.
Continued(c) == ~c.aborted /\ c.status = 0 /\ c.body = NoBody

\* C12: on an admin route AuthMiddleware runs first; a request that fails
\* authentication is answered 401 and RoleAuthMiddleware does not run; when
\* RoleAuthMiddleware runs, authentication has succeeded for that request and
\* the outcome is 403 (the role differs from "admin") or the route's handler
\* (the role equals "admin"), nothing else; no other route runs the role
\* check.  The role check itself, on the context of an authenticated request
\* and on that context without its role, for either required role: without
\* the role it answers 403, with a different role 403, with the equal role it
\* continues.
C12_RoleCheckAfterAuthentication ==
    /\ req.route \in AdminRoutes
         => /\ resp.ran[1] = "AuthMiddleware"
            /\ ~ValidToken(req.header)
                 => /\ resp.status = StatusUnauthorized
                    /\ "RoleAuthMiddleware" \notin RanSet
                    /\ resp.ran = <<"AuthMiddleware">>
            /\ "RoleAuthMiddleware" \in RanSet
                 => /\ ValidToken(req.header)
                    /\ resp.ran[2] = "RoleAuthMiddleware"
                    /\ "userRole" \in DOMAIN resp.keys
                    /\ resp.status # StatusUnauthorized
                    /\ IF resp.keys["userRole"].val = Admin
                       THEN ~resp.aborted /\ Len(resp.ran) = 3
                       ELSE /\ resp.aborted
                            /\ resp.status = StatusForbidden
                            /\ resp.ran = <<"AuthMiddleware", "RoleAuthMiddleware">>
    /\ req.route \notin AdminRoutes => "RoleAuthMiddleware" \notin RanSet
    /\ "userRole" \in DOMAIN resp.keys
         => \A requiredRole \in {Admin, User} :
               LET with == RoleAuthMiddleware(requiredRole, ContextWith(resp.keys))
                   without == RoleAuthMiddleware(requiredRole,
                                  ContextWith("userID" :> resp.keys["userID"]))
               IN  /\ Forbidden(without)
                   /\ IF resp.keys["userRole"].val = requiredRole
                      THEN Continued(with)
                      ELSE Forbidden(with)

\* C12 witness: an expired token of an administrator, sent to an admin route,
\* was answered 401 by AuthMiddleware alone.
C12_Witness ==
    /\ req.route = "GET /admin/users"
    /\ BearerForm(req.header)
    /\ Credential(req.header) \in Tokens
    /\ Credential(req.header)[2].role = Admin
    /\ clock >= Credential(req.header)[2].exp
    /\ resp.status = StatusUnauthorized
    /\ resp.ran = <<"AuthMiddleware">>

\* C12 witness, second case: the role check ran after a successful
\* authentication and refused a user's token.
C12_WitnessRoleCheck ==
    /\ req.route = "POST /admin/users"
    /\ ValidToken(req.header)
    /\ Credential(req.header) \in Tokens
    /\ resp.keys["userRole"].val = User
    /\ resp.ran = <<"AuthMiddleware", "RoleAuthMiddleware">>
    /\ resp.status = StatusForbidden

----------------------------------------------------------------------------
(* The listing.                                                            *)

\* Some stored document cannot be decoded.
SomeUndecodable == \E id \in DOMAIN users : ~users[id].wellTyped

\* list holds every stored user exactly once, each with the identifier of its
\* document and the fields of that document.
EveryUserOnce(list) ==
    /\ Len(list) = Cardinality(DOMAIN users)
    /\ \A id \in DOMAIN users :
          /\ Cardinality({k \in DOMAIN list : list[k].ID = id}) = 1
          /\ \E k \in DOMAIN list :
                list[k] = [ID |-> id, Name |-> users[id].name,
                           Email |-> users[id].email, Role |-> users[id].role]

\* An InternalError and no users at all.
InternalErrorNoUsers(r) ==
    /\ Len(r.err) = 1
    /\ r.err[1].api
    /\ r.err[1].Code = StatusInternalServerError
    /\ r.list = <<>>
    /\ r.user = <<>>

\* C13: FindAllUsers on the collection, the cursor failing at any of its calls
\* or at none: when the cursor fails or some stored document does not decode,
\* wherever it stands in the iteration, the result is an InternalError and an
\* empty list; otherwise there is no error and the list holds every stored
\* user exactly once with its document identifier.  GET /admin/users answers
\* accordingly: 500 with an error body and no list, or 200 with that list.
C13_ListingAllOrNothing ==
    /\ \A failAt \in 0..(Cardinality(DOMAIN users) + 1) :
          LET r == FindAllUsers(users, failAt)
          IN  IF failAt # 0 \/ SomeUndecodable
              THEN InternalErrorNoUsers(r)
              ELSE r.err = <<>> /\ EveryUserOnce(r.list)
    /\ (req.route = "GET /admin/users" /\ "GetAllUsers" \in RanSet)
         => IF req.failAt # 0 \/ SomeUndecodable
            THEN /\ resp.status = StatusInternalServerError
                 /\ resp.body.kind = "error"
                 /\ resp.body.list = <<>>
            ELSE /\ resp.status = StatusOK
                 /\ resp.body.kind = "users"
                 /\ EveryUserOnce(resp.body.list)

\* C13 witness: the second of two documents did not decode, the first did, and
\* the listing was answered 500 without the first.
C13_Witness ==
    /\ req.route = "GET /admin/users"
    /\ "GetAllUsers" \in RanSet
    /\ req.failAt = 0
    /\ DOMAIN users = {IdOf(1), IdOf(2)}
    /\ users[IdOf(1)].wellTyped
    /\ ~users[IdOf(2)].wellTyped
    /\ resp.status = StatusInternalServerError
    /\ resp.body.list = <<>>

\* C13 witness, second case: the cursor failed after two documents had been
\* decoded.
C13_WitnessCursor ==
    /\ req.route = "GET /admin/users"
    /\ "GetAllUsers" \in RanSet
    /\ req.failAt = 3
    /\ ~SomeUndecodable
    /\ resp.status = StatusInternalServerError
    /\ resp.body.list = <<>>

\* C13 witness, third case: two users were listed.
C13_WitnessListed ==
    /\ req.route = "GET /admin/users"
    /\ Cardinality(DOMAIN users) = 2
    /\ resp.status = StatusOK
    /\ EveryUserOnce(resp.body.list)

----------------------------------------------------------------------------
(* Identifiers.                                                            *)

\* C14: a request to POST /users or POST /admin/users that reaches the
\* store's insert, whatever "id" its body carries: answered 201, exactly one
\* document is added, under an identifier no document had, the user returned
\* carries that identifier, and every document there was is unchanged (also
\* the one the body's "id" names); when the insert fails the answer is the
\* InternalError (500) with no user and the collection is unchanged.
C14_IdentifierIsTheStores ==
    [][ (req'.route \in CreateRoutes /\ resp'.calls = <<"CreateUser">>)
        => /\ \A id \in DOMAIN users : id \in DOMAIN users' /\ users'[id] = users[id]
           /\ IF req'.backend = "ok"
              THEN /\ resp'.status = StatusCreated
                   /\ resp'.body.kind = "user"
                   /\ Len(resp'.body.user) = 1
                   /\ DOMAIN users' \ DOMAIN users = {resp'.body.user[1].ID}
                   /\ resp'.body.user[1].ID \in DocIDs
              ELSE /\ resp'.status = StatusInternalServerError
                   /\ resp'.body.kind = "error"
                   /\ resp'.body.error = <<"Failed to create user in database">>
                   /\ resp'.body.user = <<>>
                   /\ users' = users ]_vars

\* C14 witness: the body carried the identifier of a stored document; the
\* user was created under another identifier and the stored document kept.
C14_Witness ==
    /\ req.route = "POST /users"
    /\ req.body[1].id = <<IdOf(1)>>
    /\ resp.status = StatusCreated
    /\ resp.body.user[1].ID = IdOf(2)
    /\ ReturnedIsStored
    /\ IdOf(1) \in DOMAIN users
    /\ users[IdOf(1)].name = "Root"

\* C14 witness, second case: an administrator's request carried an
\* identifier no document has, and the user was created under another one.
C14_WitnessAdmin ==
    /\ req.route = "POST /admin/users"
    /\ req.body # <<>>
    /\ req.body[1].id = <<IdOf(1)>>
    /\ resp.status = StatusCreated
    /\ resp.body.user[1].ID = IdOf(2)
    /\ IdOf(1) \notin DOMAIN users

\* C14 witness, third case: the insert failed.
C14_WitnessFailed ==
    /\ req.route \in CreateRoutes
    /\ req.backend = "unavailable"
    /\ req.body[1].id = <<IdOf(1)>>
    /\ resp.status = StatusInternalServerError
    /\ resp.body.user = <<>>

----------------------------------------------------------------------------
(* The collection over time.                                               *)

ReadRoutes == {"POST /login", "GET /users/:id", "GET /admin/users"}

\* C15: in every step every stored document stays, under its identifier and
\* with its name, email and role; the requests served by FindUserByID,
\* FindAllUsers and LoginUser, and every request answered 400, 401, 403 or
\* 404, leave the collection as it was; the collection changes only in a
\* request to POST /users or POST /admin/users answered 201, and such a
\* request adds exactly one document; every user a public registration
\* returned is still stored as returned.
C15_StoreIsAppendOnly ==
    [][ /\ \A id \in DOMAIN users : id \in DOMAIN users' /\ users'[id] = users[id]
        /\ req'.route \in ReadRoutes => users' = users
        /\ resp'.status \in {StatusBadRequest, StatusUnauthorized, StatusForbidden,
                             StatusNotFound}
             => users' = users
        /\ users' # users
             => req'.route \in CreateRoutes /\ resp'.status = StatusCreated
        /\ (req'.route \in CreateRoutes /\ resp'.status = StatusCreated)
             => Cardinality(DOMAIN users' \ DOMAIN users) = 1
        /\ \A u \in registered' :
              /\ u.ID \in DOMAIN users'
              /\ users'[u.ID] = Doc(u.Name, u.Email, u.Role, TRUE) ]_vars

\* C15 witness: a user registered earlier and a document older than the
\* server are both still stored after a later registration by an
\* administrator was refused with 400.
C15_Witness ==
    \E u \in registered :
        /\ users[u.ID] = Doc(u.Name, u.Email, u.Role, TRUE)
        /\ \E id \in DOMAIN users : users[id] = Doc("Root", "root@x.com", Admin, TRUE)
        /\ req.route = "POST /admin/users"
        /\ req.body # <<>>
        /\ req.body[1].role = <<"root">>
        /\ ValidToken(req.header)
        /\ Credential(req.header) \in Tokens
        /\ resp.status = StatusBadRequest

----------------------------------------------------------------------------
(* Privileges.                                                             *)

NoAdminUser(store) == \A id \in DOMAIN store : store[id].role # Admin

NoAdminToken(calls) == \A i \in calls : i.role # Admin

\* The handlers that ran for the request answered with r, as a set.
RanOf(r) == {r.ran[k] : k \in DOMAIN r.ran}

\* The request r carried, the way the README shows, a token that GenerateJWT
\* had issued by then with role "admin", before the token's expiry.
CarriedIssuedAdminToken(r) ==
    \E i \in issued :
        /\ r.header = Bearer(i.token)
        /\ i.role = Admin
        /\ i.token[2].role = Admin
        /\ clock < i.token[2].exp

\* C16: with the secret set (clients sign with other keys only): a step from
\* a state with no stored "admin" user and no issued "admin" token leads to
\* such a state again and runs no admin handler, so from a collection without
\* administrators none of the three ever happens; in any state a token with
\* role "admin" is issued only to a stored user with role "admin", an admin
\* handler runs only for a request carrying an issued, unexpired token with
\* role "admin", and a document with role "admin" is added only by such a
\* request to POST /admin/users.
C16_NoPrivilegeEscalation ==
    [][ secretKey # "" =>
        /\ (NoAdminUser(users) /\ NoAdminToken(issued))
             => /\ NoAdminUser(users')
                /\ NoAdminToken(issued')
                /\ RanOf(resp') \cap AdminHandlers = {}
        /\ \A i \in issued' \ issued :
              i.role = Admin
                => /\ req'.route = "POST /login"
                   /\ i.userID \in DOMAIN users
                   /\ users[i.userID].role = Admin
        /\ RanOf(resp') \cap AdminHandlers # {}
             => req'.route \in AdminRoutes /\ CarriedIssuedAdminToken(req')
        /\ \A id \in DOMAIN users' \ DOMAIN users :
              users'[id].role = Admin
                => /\ req'.route = "POST /admin/users"
                   /\ CarriedIssuedAdminToken(req')
                   /\ ~NoAdminUser(users) ]_vars

\* C16 witness: in a collection without administrators (one user's role is
\* spelled "Admin") a registered user's valid token asked POST /admin/users
\* for a user with role "admin" and was answered 403; there is still no
\* administrator.
C16_Witness ==
    /\ secretKey # ""
    /\ NoAdminUser(users)
    /\ NoAdminToken(issued)
    /\ \E id \in DOMAIN users : users[id].role = "Admin"
    /\ req.route = "POST /admin/users"
    /\ ValidToken(req.header)
    /\ Credential(req.header) \in Tokens
    /\ resp.status = StatusForbidden
    /\ RanSet \cap AdminHandlers = {}

\* C16 witness, second case: an administrator other than the initial one was
\* created by a request that carried the initial administrator's token.
C16_WitnessCreatedAdmin ==
    /\ secretKey # ""
    /\ req.route = "POST /admin/users"
    /\ CarriedIssuedAdminToken(req)
    /\ resp.status = StatusCreated
    /\ resp.body.user[1].Role = Admin
    /\ ReturnedIsStored

\* C16 witness, third case: a public registration asked for role "admin" in
\* a collection without administrators.
C16_WitnessPublic ==
    /\ secretKey # ""
    /\ NoAdminUser(users)
    /\ req.route = "POST /users"
    /\ req.body[1].role = <<Admin>>
    /\ resp.status = StatusCreated

----------------------------------------------------------------------------
(* Issuance and verification.                                              *)

\* The request passed AuthMiddleware: it was not answered 401 and the
\* middleware put the identity on its context.
PassedAuthMiddleware ==
    /\ req.route \in ProtectedRoutes
    /\ resp.status # StatusUnauthorized
    /\ "userID" \in DOMAIN resp.keys

\* C17: every token AuthMiddleware accepts is a token a call of GenerateJWT
\* returned; with the secret unset no token is issued and every request to a
\* protected route is answered 401, also one that carries a token signed
\* with the empty key.
C17_AcceptedTokensWereIssued ==
    /\ PassedAuthMiddleware => Credential(req.header) \in Tokens
    /\ secretKey = ""
         => /\ issued = {}
            /\ req.route \in ProtectedRoutes
                 => /\ resp.status = StatusUnauthorized
                    /\ resp.ran = <<"AuthMiddleware">>

\* The same with the secret set: every accepted token was issued.
C17_WithSecretAcceptedWereIssued ==
    (secretKey # "" /\ PassedAuthMiddleware) => Credential(req.header) \in Tokens

\* With the secret unset, a token the client signed with the empty key, with
\* role "admin" in its claims, ran an admin handler.
C17_EmptyKeyTokenAccepted ==
    /\ secretKey = ""
    /\ issued = {}
    /\ req.route = "GET /admin/users"
    /\ req.header = Bearer(SignedString("HS256", ClientClaims, ""))
    /\ resp.status = StatusOK
    /\ "GetAllUsers" \in RanSet

----------------------------------------------------------------------------
(* Tokens and the collection.                                              *)

\* C18: in every reachable state, for every token a login was issued, the
\* collection holds a document under the token's user_id whose email and
\* role are the token's; and a request that passes AuthMiddleware with such
\* a token has on its context the identifier of that document and the role
\* the document holds now.
C18_TokenClaimsMatchStore ==
    \A i \in issued :
        /\ i.token[2].user_id \in DOMAIN users
        /\ users[i.token[2].user_id].email = i.token[2].email
        /\ users[i.token[2].user_id].role = i.token[2].role
        /\ (PassedAuthMiddleware /\ req.header = Bearer(i.token))
             => /\ resp.keys["userID"].val = i.token[2].user_id
                /\ resp.keys["userID"].val \in DOMAIN users
                /\ resp.keys["userRole"].val = users[resp.keys["userID"].val].role

\* C18 witness: an administrator created by a request logged in, and the
\* token passed AuthMiddleware with the role the document holds.
C18_Witness ==
    \E i \in issued :
        /\ users[i.userID].name # "Root"
        /\ users[i.userID].role = Admin
        /\ Cardinality(DOMAIN users) >= 2
        /\ PassedAuthMiddleware
        /\ req.header = Bearer(i.token)
        /\ resp.keys["userRole"].val = Admin

----------------------------------------------------------------------------
(* Emails.                                                                 *)

\* C19: a registration on either create route whose insert the store answers
\* is answered 201 also when stored users hold the email already, and the
\* email then has one holder more; a login with an email that several stored
\* users hold, the store answering and the secret set, is answered 200 with
\* one token, whose user_id, email and role are those of one of the holders,
\* and that one issuance is recorded.
C19_EmailNotUnique ==
    [][ /\ (req'.route \in CreateRoutes /\ resp'.calls = <<"CreateUser">>
            /\ req'.backend = "ok")
             => LET email == TextOf(req'.body[1].email)
                IN  /\ resp'.status = StatusCreated
                    /\ resp'.body.user[1].Email = email
                    /\ resp'.body.user[1].ID \notin Holders(email)
                    /\ {id \in DOMAIN users' : users'[id].email = email}
                          = Holders(email) \cup {resp'.body.user[1].ID}
        /\ (req'.route = "POST /login" /\ req'.body[1].wellFormed
            /\ req'.backend = "ok" /\ secretKey # ""
            /\ Cardinality(Holders(LoginEmail(req'))) > 1)
             => /\ resp'.status = StatusOK
                /\ resp'.body.kind = "token"
                /\ resp'.body.error = <<>>
                /\ \E id \in Holders(LoginEmail(req')) :
                      /\ resp'.body.token[2].user_id = id
                      /\ resp'.body.token[2].email = users[id].email
                      /\ resp'.body.token[2].role = users[id].role
                      /\ issued' = issued \cup
                             {Issuance(id, users[id].email, users[id].role, clock,
                                       resp'.body.token)} ]_vars

\* C19 witness: two stored users with different roles share an email, and a
\* login with that email was answered 200 with a token for one of them.
C19_Witness ==
    \E a, b \in DOMAIN users :
        /\ a # b
        /\ users[a].email = users[b].email
        /\ users[a].role # users[b].role
        /\ req.route = "POST /login"
        /\ LoginEmail(req) = users[a].email
        /\ resp.status = StatusOK
        /\ resp.body.token[2].user_id \in {a, b}

\* C19 witness, second case: a registration with an email a stored user
\* holds was answered 201.
C19_WitnessRegistered ==
    /\ req.route = "POST /users"
    /\ resp.status = StatusCreated
    /\ Cardinality(Holders(resp.body.user[1].Email)) = 2

====
